---- MODULE Spec2Model ----
(***************************************************************************)
(* Evidence chain of mondrian: attestation builder, DSSE signer/verifier,   *)
(* chain manager (append, verify, rebuild) and the attest / verify          *)
(* commands that drive them over one evidence directory.                    *)
(*                                                                          *)
(* Strings whose content matters are modelled by structured values:         *)
(*   - a SHA-256 digest is the pair <<"sha256", preimage>> (collision-free  *)
(*     idealisation), the empty string is <<>>;                             *)
(*   - JSON text is <<"json", kind, value>>, base64 text is <<"b64", text>>;*)
(*   - a hex key id is a record [key, len] (its source and its length).     *)
(***************************************************************************)
EXTENDS Integers, Sequences, FiniteSets, TLC

(***************************************************************************)
(* Bounds of the model                                                      *)
(***************************************************************************)
\* number of attest runs explored
MaxRuns == 2
\* last clock tick (time.Now() returns the current tick)
MaxClock == 1
\* clock ticks per wall-clock second (formats with second resolution)
TicksPerSecond == 1

\* number of ScanAndRepairChain calls explored
MaxRepairs == 1
\* longest list of check outcomes given to calculateSummary
MaxChecks == 4
\* the lines of a Terraform file
MaxLines == 4

(***************************************************************************)
(* Program constants                                                        *)
(***************************************************************************)
\* hex characters of a key id: hex of hash[:8]
KeyIDLen == 16
\* hex characters of the key id prefix used in file names and log lines
KeyIDPrefixLen == 8

Procs == {1, 2}
\* the process of the sequential specifications
SeqProcs == {1}

Statuses == {"pass", "fail", "warn"}
\* the rule engine's outcomes for one run (policy.CheckResult.Status per check)
ResultInputs == {<<"pass">>, <<"warn", "fail">>}

NoHash == <<>>
\* a hex digest nobody computed (an edited field)
BogusHash == <<"bogus">>
NoString == <<>>

Second(t) == t \div TicksPerSecond

(***************************************************************************)
(* Attestation builder                                                      *)
(***************************************************************************)
RECURSIVE CountStatus(_, _)
CountStatus(results, s) ==
  IF results = <<>> THEN 0
  ELSE (IF Head(results) = s THEN 1 ELSE 0) + CountStatus(Tail(results), s)

\* mutant: a warning outranks a failure
calculateSummaryWarnFirst(results) ==
  LET passed == CountStatus(results, "pass")
      failed == CountStatus(results, "fail")
      warnings == CountStatus(results, "warn")
  IN [TotalChecks |-> Len(results),
      Passed |-> passed,
      Failed |-> failed,
      Warnings |-> warnings,
      OverallStatus |-> IF warnings > 0 THEN "warn"
                        ELSE IF failed > 0 THEN "fail"
                        ELSE "pass"]

\* mutant: a warning is counted as a failure as well
calculateSummaryWarnTwice(results) ==
  LET passed == CountStatus(results, "pass")
      failed == CountStatus(results, "fail") + CountStatus(results, "warn")
      warnings == CountStatus(results, "warn")
  IN [TotalChecks |-> Len(results),
      Passed |-> passed,
      Failed |-> failed,
      Warnings |-> warnings,
      OverallStatus |-> IF failed > 0 THEN "fail"
                        ELSE IF warnings > 0 THEN "warn"
                        ELSE "pass"]

calculateSummary(results) ==
  LET passed == CountStatus(results, "pass")
      failed == CountStatus(results, "fail")
      warnings == CountStatus(results, "warn")
  IN [TotalChecks |-> Len(results),
      Passed |-> passed,
      Failed |-> failed,
      Warnings |-> warnings,
      OverallStatus |-> IF failed > 0 THEN "fail"
                        ELSE IF warnings > 0 THEN "warn"
                        ELSE "pass"]

generateRunID(t) == <<"sha256/8", "mondrian", Second(t)>>

\* json.Marshal of an attestation: every field, in declaration order
MarshalAttestation(a) ==
  <<"json", "attestation",
    <<a.Results, a.Summary, a.Timestamp, a.RunID, a.ParentHash, a.Hash>>>>

Sha256(data) == <<"sha256", data>>

\* a CheckResult whose Metadata holds a value json.Marshal rejects
UnserializableResult == "unserializable"

\* json.Marshal(temp) returns an error
MarshalFails(a) ==
  \E i \in 1..Len(a.Results) : a.Results[i] = UnserializableResult

\* fmt.Sprintf("%s-%s", a.RunID, a.Timestamp.Format(time.RFC3339))
FallbackText(a) == <<"fallback", a.RunID, Second(a.Timestamp)>>

\* calculateHash: the digest of the record with the hash cleared, or of the
\* run id and timestamp when the record does not serialize
calculateHash(a) ==
  IF MarshalFails(a) THEN Sha256(FallbackText(a))
  ELSE Sha256(MarshalAttestation([a EXCEPT !.Hash = NoHash]))

\* the zero time.Time (year 1): before every clock reading
ZeroTime == -1

\* the zero value of the Attestation struct
ZeroAttestation ==
  [Results |-> <<>>,
   Summary |-> [TotalChecks |-> 0, Passed |-> 0, Failed |-> 0, Warnings |-> 0,
                OverallStatus |-> ""],
   Timestamp |-> ZeroTime, RunID |-> NoString, ParentHash |-> NoHash,
   Hash |-> NoHash]

NewAttestation(results, parentHash, t) ==
  LET a == [Results |-> results,
            Summary |-> calculateSummary(results),
            Timestamp |-> t,
            RunID |-> generateRunID(t),
            ParentHash |-> parentHash,
            Hash |-> NoHash]
  IN [a EXCEPT !.Hash = calculateHash(a)]

\* Attestation.ToJSON: the same fields, indented
ToJSON(a) == MarshalAttestation(a)

(***************************************************************************)
(* Signer and verifier (DSSE envelope, ECDSA P-256 key pairs)               *)
(***************************************************************************)
\* the key id of key pair k: hex of the first 8 bytes of sha256(public key)
KeyIDOf(k) == [key |-> k, len |-> KeyIDLen]
EmptyKeyID == [key |-> 0, len |-> 0]
\* s[:n] of a key id; shorter strings make the slice expression panic
KeyIDPrefix(kid) == [key |-> kid.key, len |-> KeyIDPrefixLen]

ZeroSigner == [keyID |-> EmptyKeyID, privateKey |-> 0, publicKey |-> 0]

\* NewSigner with the key pair the random source yields
NewSigner(k) == [keyID |-> KeyIDOf(k), privateKey |-> k, publicKey |-> k]

B64Encode(bytes) == <<"b64", bytes>>
IsB64(text) == Len(text) = 2 /\ text[1] = "b64"
B64Decode(text) == text[2]

\* DSSE pre-authentication encoding of (payloadType, body)
PAE(payloadType, body) == <<"DSSEv1", payloadType, body>>

\* ECDSASigner.Sign: r||s of an ECDSA signature of sha256(data)
ECDSASign(privateKey, data) == <<"ecdsa", privateKey, Sha256(data)>>

\* what ecdsa.Verify would answer for (publicKey, sha256(data), signature)
ECDSAValid(publicKey, data, sig) == sig = <<"ecdsa", publicKey, Sha256(data)>>

\* dsse.EnvelopeSigner.SignPayload with the one ECDSASigner as provider
SignPayload(keyID, privateKey, payloadType, body) ==
  [PayloadType |-> payloadType,
   Payload |-> B64Encode(body),
   Signatures |-> <<[KeyID |-> keyID,
                     Sig |-> B64Encode(ECDSASign(privateKey,
                                                  PAE(payloadType, body)))]>>]

PayloadType == "application/vnd.in-toto+json"

ZeroSigned ==
  [Envelope |-> [PayloadType |-> "", Payload |-> NoString, Signatures |-> <<>>],
   Metadata |-> [KeyID |-> EmptyKeyID, Algorithm |-> "", Timestamp |-> ZeroTime]]

SignAttestation(s, a, t) ==
  [Envelope |-> SignPayload(s.keyID, s.privateKey, PayloadType, ToJSON(a)),
   Metadata |-> [KeyID |-> s.keyID, Algorithm |-> "ECDSA-SHA256",
                 Timestamp |-> t]]

\* mutant: a verifier that checks the signature against the digest of the
\* digest, and so rejects what the signer produced
ECDSAVerifierVerifyDoubleHash(keyID, publicKey, data, sig) ==
  IF keyID.len < KeyIDPrefixLen THEN "panic"
  ELSE IF ECDSAValid(publicKey, Sha256(data), sig) THEN "ok"
  ELSE "error"

\* ECDSAVerifier.Verify: prints keyID[:8] and accepts
ECDSAVerifierVerify(keyID, publicKey, data, sig) ==
  IF keyID.len < KeyIDPrefixLen THEN "panic" ELSE "ok"

\* dsse.EnvelopeVerifier.Verify with one verifier and threshold 1: a
\* signature whose key id differs from the verifier's is skipped, the others
\* are handed to the verifier; one accepted signature suffices
EnvelopeVerify(keyID, publicKey, e) ==
  IF Len(e.Signatures) = 0 THEN "error"
  ELSE IF ~IsB64(e.Payload) THEN "error"
  ELSE LET pae == PAE(e.PayloadType, B64Decode(e.Payload))
           tried == {i \in 1..Len(e.Signatures) :
                       /\ IsB64(e.Signatures[i].Sig)
                       /\ ~(/\ e.Signatures[i].KeyID.len > 0
                            /\ keyID.len > 0
                            /\ e.Signatures[i].KeyID # keyID)}
           answer(i) == ECDSAVerifierVerify(keyID, publicKey, pae,
                                            B64Decode(e.Signatures[i].Sig))
       IN IF \E i \in 1..Len(e.Signatures) : ~IsB64(e.Signatures[i].Sig)
          THEN "error"
          ELSE IF \E i \in tried : answer(i) = "panic" THEN "panic"
          ELSE IF \E i \in tried : answer(i) = "ok" THEN "ok"
          ELSE "error"

VerifySignedAttestation(signed, publicKey) ==
  EnvelopeVerify(signed.Metadata.KeyID, publicKey, signed.Envelope)

\* mutant: the file name carries the time stamp only
ArtifactNameStampOnly(signed) ==
  [stamp |-> Second(signed.Metadata.Timestamp), key |-> KeyIDPrefix(EmptyKeyID)]

\* the artifact's file name: second-resolution time stamp and key id prefix
ArtifactName(signed) ==
  [stamp |-> Second(signed.Metadata.Timestamp),
   key |-> KeyIDPrefix(signed.Metadata.KeyID)]

\* json.MarshalIndent of a SignedAttestation
MarshalSigned(signed) == <<"json", "signed", signed>>

(***************************************************************************)
(* Chain manager                                                            *)
(***************************************************************************)
generateChainID(t) == <<"sha256/8", "mondrian-chain", Second(t)>>

ZeroChain ==
  [ChainID |-> NoString, Length |-> 0, Head |-> NoHash, Genesis |-> NoHash,
   Attestations |-> <<>>]

NewChain(t) == [ZeroChain EXCEPT !.ChainID = generateChainID(t)]

\* AddAttestation, lines 115-125: the attestation as linked and re-hashed
LinkAttestation(chain, a) ==
  LET parentHash == IF chain.Length = 0 THEN NoHash ELSE chain.Head
      linked == [a EXCEPT !.ParentHash = parentHash]
  IN [linked EXCEPT !.Hash = calculateHash(linked)]

\* mutant: chain.Head takes the hash the attestation had before the re-link
AppendEntryPreLinkHead(chain, a, filePath) ==
  LET linked == LinkAttestation(chain, a)
      entry == [Hash |-> linked.Hash,
                ParentHash |-> linked.ParentHash,
                Timestamp |-> linked.Timestamp,
                RunID |-> linked.RunID,
                Status |-> linked.Summary.OverallStatus,
                FilePath |-> filePath]
  IN [chain EXCEPT !.Genesis = IF chain.Length = 0 THEN a.Hash ELSE @,
                   !.Attestations = Append(@, entry),
                   !.Length = @ + 1,
                   !.Head = a.Hash]

\* mutant: chain.Head is not advanced by the append
AppendEntryStaleHead(chain, a, filePath) ==
  LET linked == LinkAttestation(chain, a)
      entry == [Hash |-> linked.Hash,
                ParentHash |-> linked.ParentHash,
                Timestamp |-> linked.Timestamp,
                RunID |-> linked.RunID,
                Status |-> linked.Summary.OverallStatus,
                FilePath |-> filePath]
  IN [chain EXCEPT !.Genesis = IF chain.Length = 0 THEN a.Hash ELSE @,
                   !.Attestations = Append(@, entry),
                   !.Length = @ + 1]

\* mutant: the new entry is put in front of the existing entries
AppendEntryInFront(chain, a, filePath) ==
  LET linked == LinkAttestation(chain, a)
      entry == [Hash |-> linked.Hash,
                ParentHash |-> linked.ParentHash,
                Timestamp |-> linked.Timestamp,
                RunID |-> linked.RunID,
                Status |-> linked.Summary.OverallStatus,
                FilePath |-> filePath]
  IN [chain EXCEPT !.Genesis = IF chain.Length = 0 THEN a.Hash ELSE @,
                   !.Attestations = <<entry>> \o @,
                   !.Length = @ + 1,
                   !.Head = linked.Hash]

\* AddAttestation, lines 115-141: the chain after the in-memory append
AppendEntry(chain, a, filePath) ==
  LET linked == LinkAttestation(chain, a)
      entry == [Hash |-> linked.Hash,
                ParentHash |-> linked.ParentHash,
                Timestamp |-> linked.Timestamp,
                RunID |-> linked.RunID,
                Status |-> linked.Summary.OverallStatus,
                FilePath |-> filePath]
  IN [chain EXCEPT !.Genesis = IF chain.Length = 0 THEN a.Hash ELSE @,
                   !.Attestations = Append(@, entry),
                   !.Length = @ + 1,
                   !.Head = linked.Hash]


VerifyOk == [kind |-> "ok", pos |-> -1]

\* mutant: the link check starts one entry late (i > 1 for i > 0)
VerifyChainSkipFirstLink(chain, files) ==
  LET es == chain.Attestations
      n == Len(es)
      missing(i) == es[i].FilePath \notin files
      broken(i) == i > 2 /\ es[i].ParentHash # es[i-1].Hash
      bad == {i \in 1..n : missing(i) \/ broken(i)}
      first == CHOOSE i \in bad : \A j \in bad : i <= j
  IN IF n = 0 THEN VerifyOk
     ELSE IF es[1].ParentHash # NoHash
       THEN [kind |-> "genesis parent not empty", pos |-> -1]
     ELSE IF bad # {}
       THEN IF missing(first)
            THEN [kind |-> "attestation file missing", pos |-> first - 1]
            ELSE [kind |-> "parent hash mismatch", pos |-> first - 1]
     ELSE IF chain.Head # es[n].Hash
       THEN [kind |-> "head hash mismatch", pos |-> -1]
     ELSE VerifyOk

\* mutant: an entry's parent link is checked before its file is looked up
VerifyChainLinkBeforeStat(chain, files) ==
  LET es == chain.Attestations
      n == Len(es)
      missing(i) == es[i].FilePath \notin files
      broken(i) == i > 1 /\ es[i].ParentHash # es[i-1].Hash
      bad == {i \in 1..n : missing(i) \/ broken(i)}
      first == CHOOSE i \in bad : \A j \in bad : i <= j
  IN IF n = 0 THEN VerifyOk
     ELSE IF es[1].ParentHash # NoHash
       THEN [kind |-> "genesis parent not empty", pos |-> -1]
     ELSE IF bad # {}
       THEN IF broken(first)
            THEN [kind |-> "parent hash mismatch", pos |-> first - 1]
            ELSE [kind |-> "attestation file missing", pos |-> first - 1]
     ELSE IF chain.Head # es[n].Hash
       THEN [kind |-> "head hash mismatch", pos |-> -1]
     ELSE VerifyOk

\* VerifyChain: the first failing check, in the order the code makes them;
\* pos is the 0-based position the message carries (-1: none; the missing
\* file message names the entry's FilePath, recorded here by its position)
VerifyChain(chain, files) ==
  LET es == chain.Attestations
      n == Len(es)
      missing(i) == es[i].FilePath \notin files
      broken(i) == i > 1 /\ es[i].ParentHash # es[i-1].Hash
      bad == {i \in 1..n : missing(i) \/ broken(i)}
      first == CHOOSE i \in bad : \A j \in bad : i <= j
  IN IF n = 0 THEN VerifyOk
     ELSE IF es[1].ParentHash # NoHash
       THEN [kind |-> "genesis parent not empty", pos |-> -1]
     ELSE IF bad # {}
       THEN IF missing(first)
            THEN [kind |-> "attestation file missing", pos |-> first - 1]
            ELSE [kind |-> "parent hash mismatch", pos |-> first - 1]
     ELSE IF chain.Head # es[n].Hash
       THEN [kind |-> "head hash mismatch", pos |-> -1]
     ELSE VerifyOk

(***************************************************************************)
(* State                                                                    *)
(***************************************************************************)
VARIABLES
  now,       \* the clock: what time.Now() returns
  index,     \* chain.json of the evidence directory
  store,     \* the attestation-*.json files: name -> content
  nextKey,   \* the next key pair the random source yields
  runs,      \* attest runs started
  repairs,   \* ScanAndRepairChain calls made
  appended,  \* AddAttestation calls that returned nil
  tamper,    \* edits made to the evidence directory from outside
  pc,        \* per process: position in its command
  chain,     \* per process: the *EvidenceChain it holds
  att,       \* per process: the *Attestation it holds
  signer,    \* per process: the *Signer it holds
  signed,    \* per process: the *SignedAttestation it holds
  filePath,  \* per process: the artifact's file name
  vres,      \* per process: what VerifyChain returned
  sigres,    \* per process: the last VerifySignedAttestation call and result
  scan,      \* per process: the files scanned and the subjects made of them
  check      \* per process: what the check command scanned and found

vars == <<now, index, store, nextKey, runs, repairs, appended, tamper, pc, chain, att,
          signer, signed, filePath, vres, sigres, scan, check>>

disk == <<index, store>>
locals == <<chain, att, signer, signed, filePath, vres, sigres, scan, check>>

NoFile == [stamp |-> -1, key |-> EmptyKeyID]
AbsentIndex == [kind |-> "absent", chain |-> ZeroChain]
PresentIndex(c) == [kind |-> "chain", chain |-> c]
\* chain.json holding bytes json.Unmarshal rejects (empty or cut short)
CorruptIndex == [kind |-> "corrupt", chain |-> ZeroChain]
NotVerified == [kind |-> "not run", pos |-> -1]
NoSigCheck == [file |-> NoFile, publicKey |-> 0, result |-> "not run"]
NoScan == [files |-> <<>>, subjects |-> <<>>]
\* files: relative path -> content (map[string]string); results: []CheckResult
NoCheck == [files |-> <<>>, results |-> <<>>]

Files == DOMAIN store

WriteFile(files, name, content) ==
  [f \in DOMAIN files \cup {name} |-> IF f = name THEN content ELSE files[f]]

RemoveFile(files, name) == [f \in DOMAIN files \ {name} |-> files[f]]

Init ==
  /\ now = 0
  /\ index = AbsentIndex
  /\ store = [f \in {} |-> NoString]
  /\ nextKey = 1
  /\ runs = 0
  /\ repairs = 0
  /\ appended = 0
  /\ tamper = {}
  /\ pc = [p \in Procs |-> "idle"]
  /\ chain = [p \in Procs |-> ZeroChain]
  /\ att = [p \in Procs |-> ZeroAttestation]
  /\ signer = [p \in Procs |-> ZeroSigner]
  /\ signed = [p \in Procs |-> ZeroSigned]
  /\ filePath = [p \in Procs |-> NoFile]
  /\ vres = [p \in Procs |-> NotVerified]
  /\ sigres = [p \in Procs |-> NoSigCheck]
  /\ scan = [p \in Procs |-> NoScan]
  /\ check = [p \in Procs |-> NoCheck]

\* time.Now() returns t; the clock does not run backwards (its readings are
\* drawn from now..MaxClock), and t becomes the last reading
TimeNow(t) == now' = t

(***************************************************************************)
(* LoadOrCreateChain and SaveChain                                          *)
(***************************************************************************)
\* SaveChain: the index after the call (writeOk: os.WriteFile succeeded)
SaveChain(idx, c, writeOk) == IF writeOk THEN PresentIndex(c) ELSE idx

\* mutant: a new chain is made and saved whether or not the index exists
LoadOrCreateChainAlwaysNew(idx, t, writeOk) ==
  [chain |-> NewChain(t), err |-> ~writeOk,
   index |-> SaveChain(idx, NewChain(t), writeOk)]

\* mutant: an index that does not parse is replaced like an absent one
LoadOrCreateChainReplacesCorrupt(idx, t, writeOk) ==
  IF idx.kind \in {"absent", "corrupt"}
  THEN [chain |-> NewChain(t), err |-> ~writeOk,
        index |-> SaveChain(idx, NewChain(t), writeOk)]
  ELSE [chain |-> idx.chain, err |-> FALSE, index |-> idx]

\* LoadOrCreateChain: the chain returned (ZeroChain for nil), the error, the
\* index left behind
LoadOrCreateChain(idx, t, writeOk) ==
  IF idx.kind = "absent"
  THEN [chain |-> NewChain(t), err |-> ~writeOk,
        index |-> SaveChain(idx, NewChain(t), writeOk)]
  ELSE IF idx.kind = "corrupt"
  THEN [chain |-> ZeroChain, err |-> TRUE, index |-> idx]
  ELSE [chain |-> idx.chain, err |-> FALSE, index |-> idx]

(***************************************************************************)
(* The attest command (generateAttestation)                                 *)
(***************************************************************************)
AttestLoad(p) ==
  /\ pc[p] = "idle"
  /\ runs < MaxRuns
  /\ runs' = runs + 1
  /\ \E writeOk \in BOOLEAN : \E t \in now..MaxClock :
       LET r == LoadOrCreateChain(index, t, writeOk)
       IN /\ TimeNow(t)
          /\ index.kind # "absent" => t = now
          /\ index' = r.index
          /\ chain' = [chain EXCEPT ![p] = r.chain]
          /\ pc' = [pc EXCEPT ![p] = IF r.err THEN "failed" ELSE "loaded"]
  /\ UNCHANGED <<repairs, store, nextKey, appended, tamper, att, signer, signed,
                 filePath, vres, sigres, scan, check>>

\* mutant: the attest command leaves metadata.ParentHash unset
MetadataParentHashUnset(c) == NoHash

\* metadata.ParentHash as the attest command sets it
MetadataParentHash(c) == c.Head

\* NewAttestation(results, metadata) with metadata.ParentHash = hint
BuildWith(p, results, hint) ==
  /\ pc[p] = "loaded"
  /\ \E t \in now..MaxClock :
       /\ TimeNow(t)
       /\ att' = [att EXCEPT ![p] = NewAttestation(results, hint, t)]
  /\ pc' = [pc EXCEPT ![p] = "built"]
  /\ UNCHANGED <<index, store, nextKey, runs, repairs, appended, tamper, chain,
                 signer, signed, filePath, vres, sigres, scan, check>>

AttestBuild(p) ==
  \E results \in ResultInputs :
    BuildWith(p, results, MetadataParentHash(chain[p]))

\* the rule engine's results, some with metadata that does not serialize
AnyResultInputs == ResultInputs \cup {<<"pass", UnserializableResult>>}

AttestBuildAnyResult(p) ==
  \E results \in AnyResultInputs :
    BuildWith(p, results, MetadataParentHash(chain[p]))

\* a library caller's NewAttestation: any parent hash hint
HintChoices(c) == {c.Head, BogusHash}

AttestBuildAnyHint(p) ==
  \E results \in ResultInputs : \E hint \in HintChoices(chain[p]) :
    BuildWith(p, results, hint)

AttestNewSigner(p) ==
  /\ pc[p] = "built"
  /\ signer' = [signer EXCEPT ![p] = NewSigner(nextKey)]
  /\ nextKey' = nextKey + 1
  /\ pc' = [pc EXCEPT ![p] = "keyed"]
  /\ UNCHANGED <<now, index, store, runs, repairs, appended, tamper, chain, att, signed,
                 filePath, vres, sigres, scan, check>>

AttestSign(p) ==
  /\ pc[p] = "keyed"
  /\ ~MarshalFails(att[p])    \* ToJSON returns the bytes to sign
  /\ \E t \in now..MaxClock :
       /\ TimeNow(t)
       /\ signed' = [signed EXCEPT ![p] = SignAttestation(signer[p], att[p], t)]
  /\ pc' = [pc EXCEPT ![p] = "signed"]
  /\ UNCHANGED <<index, store, nextKey, runs, repairs, appended, tamper, chain, att,
                 signer, filePath, vres, sigres, scan, check>>

\* SaveSignedAttestation, and the file name generateAttestation computes
AttestSave(p) ==
  /\ pc[p] = "signed"
  /\ filePath' = [filePath EXCEPT ![p] = ArtifactName(signed[p])]
  /\ store' = WriteFile(store, ArtifactName(signed[p]), MarshalSigned(signed[p]))
  /\ pc' = [pc EXCEPT ![p] = "saved"]
  /\ UNCHANGED <<now, index, nextKey, runs, repairs, appended, tamper, chain, att,
                 signer, signed, vres, sigres, scan, check>>

\* AddAttestation: links and re-hashes the attestation, appends the entry,
\* then SaveChain
AttestAdd(p) ==
  /\ pc[p] = "saved"
  /\ \E writeOk \in BOOLEAN :
       /\ att' = [att EXCEPT ![p] = LinkAttestation(chain[p], att[p])]
       /\ chain' = [chain EXCEPT ![p] = AppendEntry(chain[p], att[p], filePath[p])]
       /\ index' = SaveChain(index, AppendEntry(chain[p], att[p], filePath[p]),
                             writeOk)
       /\ appended' = IF writeOk THEN appended + 1 ELSE appended
       /\ pc' = [pc EXCEPT ![p] = IF writeOk THEN "added" ELSE "failed"]
  /\ UNCHANGED <<now, store, nextKey, runs, repairs, tamper, signer, signed, filePath,
                 vres, sigres, scan, check>>

\* "Chain length: %d attestations", printed after AddAttestation returned
ReportedChainLength(c) == c.Length + 1

\* the process ends (exit status 1 from "failed", 0 otherwise)
Exit(p) ==
  /\ pc[p] \in {"added", "failed", "verified", "empty", "sigchecked"}
  /\ pc' = [pc EXCEPT ![p] = "idle"]
  /\ chain' = [chain EXCEPT ![p] = ZeroChain]
  /\ att' = [att EXCEPT ![p] = ZeroAttestation]
  /\ signer' = [signer EXCEPT ![p] = ZeroSigner]
  /\ signed' = [signed EXCEPT ![p] = ZeroSigned]
  /\ filePath' = [filePath EXCEPT ![p] = NoFile]
  /\ vres' = [vres EXCEPT ![p] = NotVerified]
  /\ sigres' = [sigres EXCEPT ![p] = NoSigCheck]
  /\ UNCHANGED <<now, index, store, nextKey, runs, repairs, appended, tamper, scan, check>>

(***************************************************************************)
(* The verify command (verifyEvidence)                                      *)
(***************************************************************************)
VerifyLoad(p) ==
  /\ pc[p] = "idle"
  /\ \E writeOk \in BOOLEAN : \E t \in now..MaxClock :
       LET r == LoadOrCreateChain(index, t, writeOk)
       IN /\ TimeNow(t)
          /\ index.kind # "absent" => t = now
          /\ index' = r.index
          /\ chain' = [chain EXCEPT ![p] = r.chain]
          /\ pc' = [pc EXCEPT ![p] = IF r.err THEN "failed" ELSE "vloaded"]
  /\ UNCHANGED <<store, nextKey, runs, repairs, appended, tamper, att, signer,
                 signed, filePath, vres, sigres, scan, check>>

\* chain.Length == 0: "No attestations found", return
VerifyEmpty(p) ==
  /\ pc[p] = "vloaded"
  /\ chain[p].Length = 0
  /\ pc' = [pc EXCEPT ![p] = "empty"]
  /\ UNCHANGED <<now, index, store, nextKey, runs, repairs, appended, tamper, locals>>

VerifyRun(p) ==
  /\ pc[p] = "vloaded"
  /\ chain[p].Length # 0
  /\ vres' = [vres EXCEPT ![p] = VerifyChain(chain[p], Files)]
  /\ pc' = [pc EXCEPT ![p] =
              IF VerifyChain(chain[p], Files) = VerifyOk THEN "verified"
              ELSE "failed"]
  /\ UNCHANGED <<now, index, store, nextKey, runs, repairs, appended, tamper, chain, att,
                 signer, signed, filePath, sigres, scan, check>>

\* what verifyEvidence prints once VerifyChain has returned nil
VerifiedReport ==
  {"Evidence chain verification passed!",
   "Verification complete - evidence chain is valid and tamper-evident"}

Next ==
  \/ \E p \in SeqProcs :
       \/ AttestLoad(p)
       \/ AttestBuild(p)
       \/ AttestNewSigner(p)
       \/ AttestSign(p)
       \/ AttestSave(p)
       \/ AttestAdd(p)
       \/ VerifyLoad(p)
       \/ VerifyEmpty(p)
       \/ VerifyRun(p)
       \/ Exit(p)

Spec == Init /\ [][Next]_vars

(***************************************************************************)
(* Reading artifacts back                                                   *)
(***************************************************************************)
IsJSON(text) == Len(text) = 3 /\ text[1] = "json"

\* json.Unmarshal(data, &signed): any JSON object parses; the fields the
\* object does not hold keep their zero values
UnmarshalSigned(text) ==
  IF ~IsJSON(text) THEN [ok |-> FALSE, value |-> ZeroSigned]
  ELSE IF text[2] = "signed" THEN [ok |-> TRUE, value |-> text[3]]
  ELSE [ok |-> TRUE, value |-> ZeroSigned]

\* json.Unmarshal(data, &attestation)
UnmarshalAttestation(text) ==
  IF ~IsJSON(text) THEN [ok |-> FALSE, value |-> ZeroAttestation]
  ELSE IF text[2] = "attestation"
    THEN [ok |-> TRUE,
          value |-> [Results |-> text[3][1], Summary |-> text[3][2],
                     Timestamp |-> text[3][3], RunID |-> text[3][4],
                     ParentHash |-> text[3][5], Hash |-> text[3][6]]]
  ELSE [ok |-> TRUE, value |-> ZeroAttestation]

EntryOf(a, name) ==
  [Hash |-> a.Hash, ParentHash |-> NoHash, Timestamp |-> a.Timestamp,
   RunID |-> a.RunID, Status |-> a.Summary.OverallStatus, FilePath |-> name]

\* loadAttestationEntry: first as a signed envelope whose payload string is
\* parsed as an attestation, then as a plain attestation
loadAttestationEntry(text, name) ==
  LET s == UnmarshalSigned(text)
      inner == UnmarshalAttestation(s.value.Envelope.Payload)
      plain == UnmarshalAttestation(text)
  IN IF s.ok /\ inner.ok THEN [ok |-> TRUE, entry |-> EntryOf(inner.value, name)]
     ELSE IF plain.ok THEN [ok |-> TRUE, entry |-> EntryOf(plain.value, name)]
     ELSE [ok |-> FALSE, entry |-> EntryOf(ZeroAttestation, name)]

(***************************************************************************)
(* ScanAndRepairChain                                                       *)
(***************************************************************************)
\* mutant: the entries keep the parent hash they were loaded with
RelinkNothing(entries, previousHash) == entries

\* lines 219-228: re-derive the parent links in the given order
RECURSIVE Relink(_, _)
Relink(entries, previousHash) ==
  IF entries = <<>> THEN <<>>
  ELSE <<[Head(entries) EXCEPT !.ParentHash = previousHash]>>
         \o Relink(Tail(entries), Head(entries).Hash)

\* the orders sort.Slice (not stable) may leave the loaded entries in
SortedOrders(names) ==
  {o \in [1..Cardinality(names) -> names] :
     /\ \A i, j \in DOMAIN o : i # j => o[i] # o[j]
     /\ \A i, j \in DOMAIN o :
          i < j => ~(loadAttestationEntry(store[o[j]], o[j]).entry.Timestamp
                     < loadAttestationEntry(store[o[i]], o[i]).entry.Timestamp)}

RebuiltChain(order, t) ==
  LET entries == [i \in DOMAIN order |->
                    loadAttestationEntry(store[order[i]], order[i]).entry]
      rebuilt == Relink(entries, NoHash)
  IN [ChainID |-> generateChainID(t),
      Length |-> Len(rebuilt),
      Head |-> rebuilt[Len(rebuilt)].Hash,
      Genesis |-> rebuilt[1].Hash,
      Attestations |-> rebuilt]

ScanAndRepairChain(p) ==
  /\ pc[p] = "idle"
  /\ repairs < MaxRepairs
  /\ repairs' = repairs + 1
  /\ \E writeOk \in BOOLEAN : \E t \in now..MaxClock :
       LET loaded == {f \in Files : loadAttestationEntry(store[f], f).ok}
           done == IF writeOk THEN "repaired" ELSE "failed"
       IN /\ TimeNow(t)
          /\ IF Files = {}
               THEN /\ chain' = [chain EXCEPT ![p] = NewChain(t)]
                    /\ index' = SaveChain(index, NewChain(t), writeOk)
                    /\ pc' = [pc EXCEPT ![p] = done]
             ELSE IF loaded = {}
               THEN \* rebuiltEntries[0] of an empty slice: index out of range
                    /\ pc' = [pc EXCEPT ![p] = "panicked"]
                    /\ UNCHANGED <<chain, index>>
             ELSE \E order \in SortedOrders(loaded) :
                    /\ chain' = [chain EXCEPT ![p] = RebuiltChain(order, t)]
                    /\ index' = SaveChain(index, RebuiltChain(order, t), writeOk)
                    /\ pc' = [pc EXCEPT ![p] = done]
  /\ UNCHANGED <<store, nextKey, runs, appended, tamper, att, signer,
                 signed, filePath, vres, sigres, scan, check>>

\* the caller of ScanAndRepairChain drops the chain
RepairDone(p) ==
  /\ pc[p] \in {"repaired", "panicked"}
  /\ pc' = [pc EXCEPT ![p] = "idle"]
  /\ chain' = [chain EXCEPT ![p] = ZeroChain]
  /\ UNCHANGED <<now, index, store, nextKey, runs, repairs, appended, tamper, att,
                 signer, signed, filePath, vres, sigres, scan, check>>

(***************************************************************************)
(* A caller of VerifySignedAttestation: a stored artifact and a public key  *)
(***************************************************************************)
SigCheck(p) ==
  /\ pc[p] = "idle"
  /\ \E f \in Files : \E k \in 1..nextKey :
       /\ UnmarshalSigned(store[f]).ok
       /\ sigres' = [sigres EXCEPT ![p] =
            [file |-> f, publicKey |-> k,
             result |-> VerifySignedAttestation(UnmarshalSigned(store[f]).value, k)]]
  /\ pc' = [pc EXCEPT ![p] = "sigchecked"]
  /\ UNCHANGED <<now, index, store, nextKey, runs, repairs, appended, tamper, chain, att,
                 signer, signed, filePath, vres, scan, check>>

(***************************************************************************)
(* Edits to the evidence directory made from outside, between commands      *)
(***************************************************************************)
AllIdle == \A p \in Procs : pc[p] = "idle"

Edit(op, pos, file) == [op |-> op, pos |-> pos, file |-> file]

\* the outside party edits the index once and one artifact once
CanEditIndex ==
  /\ AllIdle
  /\ index.kind = "chain"
  /\ \A t \in tamper : t.op \notin {"parentHash", "head", "genesis"}

CanEditStore ==
  /\ AllIdle
  /\ \A t \in tamper : t.op \notin {"delete", "alter"}

\* entry pos (0-based) of the index gets another parentHash
TamperParentHash ==
  /\ CanEditIndex
  /\ \E i \in 1..Len(index.chain.Attestations) :
     \E h \in {NoHash, BogusHash} \ {index.chain.Attestations[i].ParentHash} :
       /\ index' = [index EXCEPT !.chain.Attestations[i].ParentHash = h]
       /\ tamper' = tamper \cup {Edit("parentHash", i - 1, NoFile)}
  /\ UNCHANGED <<now, store, nextKey, runs, repairs, appended, pc, locals>>

TamperHead ==
  /\ CanEditIndex
  /\ index.chain.Head # BogusHash
  /\ index' = [index EXCEPT !.chain.Head = BogusHash]
  /\ tamper' = tamper \cup {Edit("head", -1, NoFile)}
  /\ UNCHANGED <<now, store, nextKey, runs, repairs, appended, pc, locals>>

TamperGenesis ==
  /\ CanEditIndex
  /\ index.chain.Genesis # BogusHash
  /\ index' = [index EXCEPT !.chain.Genesis = BogusHash]
  /\ tamper' = tamper \cup {Edit("genesis", -1, NoFile)}
  /\ UNCHANGED <<now, store, nextKey, runs, repairs, appended, pc, locals>>

DeleteArtifact ==
  /\ CanEditStore
  /\ \E f \in Files :
       /\ store' = RemoveFile(store, f)
       /\ tamper' = tamper \cup {Edit("delete", -1, f)}
  /\ UNCHANGED <<now, index, nextKey, runs, repairs, appended, pc, locals>>

\* the checks an edited artifact reports: never what a run produces
AlteredResults == <<"pass", "pass">>

\* the envelope's payload with the attestation's results rewritten
AlteredContent(text) ==
  LET s == UnmarshalSigned(text).value
      a == UnmarshalAttestation(B64Decode(s.Envelope.Payload)).value
      b == [a EXCEPT !.Results = AlteredResults,
                     !.Summary = calculateSummary(AlteredResults)]
  IN MarshalSigned([s EXCEPT !.Envelope.Payload = B64Encode(ToJSON(b))])

\* the content of a stored artifact is rewritten, the file keeps its name
AlterArtifact ==
  /\ CanEditStore
  /\ \E f \in Files :
       /\ store[f] # AlteredContent(store[f])
       /\ store' = WriteFile(store, f, AlteredContent(store[f]))
       /\ tamper' = tamper \cup {Edit("alter", -1, f)}
  /\ UNCHANGED <<now, index, nextKey, runs, repairs, appended, pc, locals>>

(***************************************************************************)
(* The attest command when key generation, signing or saving fails          *)
(***************************************************************************)
\* NewSigner returns an error (ecdsa.GenerateKey failed): exit 1
AttestNewSignerFails(p) ==
  /\ pc[p] = "built"
  /\ pc' = [pc EXCEPT ![p] = "failed"]
  /\ UNCHANGED <<now, disk, nextKey, runs, repairs, appended, tamper, locals>>

\* SignAttestation returns an error (ToJSON or ecdsa.Sign failed): exit 1
AttestSignFails(p) ==
  /\ pc[p] = "keyed"
  /\ pc' = [pc EXCEPT ![p] = "failed"]
  /\ UNCHANGED <<now, disk, nextKey, runs, repairs, appended, tamper, locals>>

\* what os.WriteFile leaves of a file when it fails part-way
TruncatedText == <<"truncated">>

\* mutant: the command goes on to AddAttestation after a failed save
AttestSaveFailsIgnored(p) ==
  /\ pc[p] = "signed"
  /\ filePath' = [filePath EXCEPT ![p] = ArtifactName(signed[p])]
  /\ \E partial \in BOOLEAN :
       store' = IF partial
                THEN WriteFile(store, ArtifactName(signed[p]), TruncatedText)
                ELSE store
  /\ pc' = [pc EXCEPT ![p] = "saved"]
  /\ UNCHANGED <<now, index, nextKey, runs, repairs, appended, tamper, chain, att,
                 signer, signed, vres, sigres, scan, check>>

\* SaveSignedAttestation returns an error (MkdirAll or WriteFile failed,
\* the file absent or cut short): exit 1
AttestSaveFails(p) ==
  /\ pc[p] = "signed"
  /\ filePath' = [filePath EXCEPT ![p] = ArtifactName(signed[p])]
  /\ \E partial \in BOOLEAN :
       store' = IF partial
                THEN WriteFile(store, ArtifactName(signed[p]), TruncatedText)
                ELSE store
  /\ pc' = [pc EXCEPT ![p] = "failed"]
  /\ UNCHANGED <<now, index, nextKey, runs, repairs, appended, tamper, chain, att,
                 signer, signed, vres, sigres, scan, check>>

(***************************************************************************)
(* AddAttestation with the steps of os.WriteFile told apart                 *)
(***************************************************************************)
\* AddAttestation up to SaveChain's os.WriteFile opening chain.json with
\* O_TRUNC: the file is empty from here until the data is written
AttestAddOpen(p) ==
  /\ pc[p] = "saved"
  /\ att' = [att EXCEPT ![p] = LinkAttestation(chain[p], att[p])]
  /\ chain' = [chain EXCEPT ![p] = AppendEntry(chain[p], att[p], filePath[p])]
  /\ \E openOk \in BOOLEAN :
       /\ index' = IF openOk THEN CorruptIndex ELSE index
       /\ pc' = [pc EXCEPT ![p] = IF openOk THEN "writing" ELSE "failed"]
  /\ UNCHANGED <<now, store, nextKey, runs, repairs, appended, tamper, signer,
                 signed, filePath, vres, sigres, scan, check>>

\* the write and close of os.WriteFile: the whole index, or an error with
\* the file left cut short
AttestAddWrite(p) ==
  /\ pc[p] = "writing"
  /\ \E writeOk \in BOOLEAN :
       /\ index' = IF writeOk THEN PresentIndex(chain[p]) ELSE CorruptIndex
       /\ appended' = IF writeOk THEN appended + 1 ELSE appended
       /\ pc' = [pc EXCEPT ![p] = IF writeOk THEN "added" ELSE "failed"]
  /\ UNCHANGED <<now, store, nextKey, runs, repairs, tamper, locals>>

\* the process is killed in the middle of the write
Crash(p) ==
  /\ pc[p] = "writing"
  /\ pc' = [pc EXCEPT ![p] = "idle"]
  /\ chain' = [chain EXCEPT ![p] = ZeroChain]
  /\ att' = [att EXCEPT ![p] = ZeroAttestation]
  /\ signer' = [signer EXCEPT ![p] = ZeroSigner]
  /\ signed' = [signed EXCEPT ![p] = ZeroSigned]
  /\ filePath' = [filePath EXCEPT ![p] = NoFile]
  /\ UNCHANGED <<now, index, store, nextKey, runs, repairs, appended, tamper, vres,
                 sigres, scan, check>>

(***************************************************************************)
(* Specifications                                                           *)
(***************************************************************************)
\* the library as any caller may use it: any parent hash hint
NextLib ==
  \/ \E p \in SeqProcs :
       \/ AttestLoad(p)
       \/ AttestBuildAnyHint(p)
       \/ AttestNewSigner(p)
       \/ AttestSign(p)
       \/ AttestSave(p)
       \/ AttestAdd(p)
       \/ VerifyLoad(p)
       \/ VerifyEmpty(p)
       \/ VerifyRun(p)
       \/ Exit(p)

SpecLib == Init /\ [][NextLib]_vars

\* attest runs and ScanAndRepairChain calls
NextRepair ==
  \/ \E p \in SeqProcs :
       \/ AttestLoad(p)
       \/ AttestBuild(p)
       \/ AttestNewSigner(p)
       \/ AttestSign(p)
       \/ AttestSave(p)
       \/ AttestAdd(p)
       \/ Exit(p)
       \/ ScanAndRepairChain(p)
       \/ RepairDone(p)

SpecRepair == Init /\ [][NextRepair]_vars

\* the commands over an evidence directory that is edited from outside
NextTamper ==
  \/ Next
  \/ TamperParentHash
  \/ TamperHead
  \/ TamperGenesis
  \/ DeleteArtifact
  \/ AlterArtifact

SpecTamper == Init /\ [][NextTamper]_vars

\* the attest command, callers of VerifySignedAttestation, and artifacts
\* rewritten from outside
NextSig ==
  \/ Next
  \/ \E p \in SeqProcs : SigCheck(p)
  \/ AlterArtifact

SpecSig == Init /\ [][NextSig]_vars

\* the commands when key generation, signing and saving may fail
NextFail ==
  \/ Next
  \/ \E p \in SeqProcs :
       \/ AttestNewSignerFails(p)
       \/ AttestSignFails(p)
       \/ AttestSaveFails(p)

SpecFail == Init /\ [][NextFail]_vars

\* the commands with the index write in steps, and a crash in its middle
NextCrash ==
  \/ \E p \in SeqProcs :
       \/ AttestLoad(p)
       \/ AttestBuild(p)
       \/ AttestNewSigner(p)
       \/ AttestSign(p)
       \/ AttestSave(p)
       \/ AttestAddOpen(p)
       \/ AttestAddWrite(p)
       \/ Crash(p)
       \/ VerifyLoad(p)
       \/ VerifyEmpty(p)
       \/ VerifyRun(p)
       \/ Exit(p)

SpecCrash == Init /\ [][NextCrash]_vars

\* attest runs of two processes on the same evidence directory, their
\* steps interleaved in any way
NextConc ==
  \/ \E p \in Procs :
       \/ AttestLoad(p)
       \/ AttestBuild(p)
       \/ AttestNewSigner(p)
       \/ AttestSign(p)
       \/ AttestSave(p)
       \/ AttestAdd(p)
       \/ Exit(p)

SpecConc == Init /\ [][NextConc]_vars

\* attest runs whose save may fail and leave a cut-short artifact file, and
\* ScanAndRepairChain calls
NextRepairJunk ==
  \/ NextRepair
  \/ \E p \in SeqProcs : AttestSaveFails(p)

SpecRepairJunk == Init /\ [][NextRepairJunk]_vars

(***************************************************************************)
(* calculateSummary applied to lists of check outcomes                      *)
(***************************************************************************)
\* CheckResult.Status is a string: the three statuses and any other value
AnyStatus == Statuses \cup {"skip"}

SummaryInputs == UNION {[1..n -> AnyStatus] : n \in 0..MaxChecks}

InitSummary ==
  /\ now = 0
  /\ index = AbsentIndex
  /\ store = [f \in {} |-> NoString]
  /\ nextKey = 1
  /\ runs = 0
  /\ repairs = 0
  /\ appended = 0
  /\ tamper = {}
  /\ pc = [p \in Procs |-> "idle"]
  /\ chain = [p \in Procs |-> ZeroChain]
  /\ \E results \in SummaryInputs :
       att = [p \in Procs |->
                [ZeroAttestation EXCEPT !.Results = IF p \in SeqProcs THEN results
                                                     ELSE <<>>]]
  /\ signer = [p \in Procs |-> ZeroSigner]
  /\ signed = [p \in Procs |-> ZeroSigned]
  /\ filePath = [p \in Procs |-> NoFile]
  /\ vres = [p \in Procs |-> NotVerified]
  /\ sigres = [p \in Procs |-> NoSigCheck]
  /\ scan = [p \in Procs |-> NoScan]
  /\ check = [p \in Procs |-> NoCheck]

\* summary := calculateSummary(results)
Summarize(p) ==
  /\ pc[p] = "idle"
  /\ att' = [att EXCEPT ![p].Summary = calculateSummary(att[p].Results)]
  /\ pc' = [pc EXCEPT ![p] = "summarized"]
  /\ UNCHANGED <<now, index, store, nextKey, runs, repairs, appended, tamper, chain,
                 signer, signed, filePath, vres, sigres, scan, check>>

NextSummary == \E p \in SeqProcs : Summarize(p)

SpecSummary == InitSummary /\ [][NextSummary]_vars

(***************************************************************************)
(* calculateHash applied to pairs of attestations                           *)
(***************************************************************************)
HashInputs ==
  [Results : {<<"pass">>, <<UnserializableResult>>},
   Summary : {calculateSummary(<<"pass">>)},
   Timestamp : 0..1,
   RunID : {generateRunID(0)},
   ParentHash : {NoHash, BogusHash},
   Hash : {NoHash, BogusHash}]

InitHash ==
  /\ now = 0
  /\ index = AbsentIndex
  /\ store = [f \in {} |-> NoString]
  /\ nextKey = 1
  /\ runs = 0
  /\ repairs = 0
  /\ appended = 0
  /\ tamper = {}
  /\ pc = [p \in Procs |-> "idle"]
  /\ chain = [p \in Procs |-> ZeroChain]
  /\ att \in [Procs -> HashInputs]
  /\ signer = [p \in Procs |-> ZeroSigner]
  /\ signed = [p \in Procs |-> ZeroSigned]
  /\ filePath = [p \in Procs |-> NoFile]
  /\ vres = [p \in Procs |-> NotVerified]
  /\ sigres = [p \in Procs |-> NoSigCheck]
  /\ scan = [p \in Procs |-> NoScan]
  /\ check = [p \in Procs |-> NoCheck]

\* attestation.Hash = attestation.calculateHash()
Rehash(p) ==
  /\ pc[p] \in {"idle", "hashed"}
  /\ att' = [att EXCEPT ![p].Hash = calculateHash(att[p])]
  /\ pc' = [pc EXCEPT ![p] = IF pc[p] = "idle" THEN "hashed" ELSE "rehashed"]
  /\ UNCHANGED <<now, index, store, nextKey, runs, repairs, appended, tamper, chain,
                 signer, signed, filePath, vres, sigres, scan, check>>

NextHash == \E p \in Procs : Rehash(p)

SpecHash == InitHash /\ [][NextHash]_vars

\* attest runs over results that may not serialize
NextBuild ==
  \/ \E p \in SeqProcs :
       \/ AttestLoad(p)
       \/ AttestBuildAnyResult(p)
       \/ AttestNewSigner(p)
       \/ AttestSign(p)
       \/ AttestSignFails(p)
       \/ AttestSave(p)
       \/ AttestAdd(p)
       \/ Exit(p)

SpecBuild == Init /\ [][NextBuild]_vars

(***************************************************************************)
(* The subjects NewAttestation makes of the scanned files                   *)
(***************************************************************************)
\* a scanned file: the path in metadata.FilesScanned and what the file holds
ScannedFiles == [path : {"main.tf", "ci.yml"}, content : {"v1", "v2"}]

ScanInputs == UNION {[1..n -> ScannedFiles] : n \in 0..2}

\* NewAttestation lines 83-92: one subject per file, the digest taken of
\* []byte(file), the path
Subjects(files) ==
  [i \in 1..Len(files) |->
     [Name |-> files[i].path, Digest |-> Sha256(<<"path", files[i].path>>)]]

InitSubjects ==
  /\ now = 0
  /\ index = AbsentIndex
  /\ store = [f \in {} |-> NoString]
  /\ nextKey = 1
  /\ runs = 0
  /\ repairs = 0
  /\ appended = 0
  /\ tamper = {}
  /\ pc = [p \in Procs |-> "idle"]
  /\ chain = [p \in Procs |-> ZeroChain]
  /\ att = [p \in Procs |-> ZeroAttestation]
  /\ signer = [p \in Procs |-> ZeroSigner]
  /\ signed = [p \in Procs |-> ZeroSigned]
  /\ filePath = [p \in Procs |-> NoFile]
  /\ vres = [p \in Procs |-> NotVerified]
  /\ sigres = [p \in Procs |-> NoSigCheck]
  /\ scan \in [Procs -> [files : ScanInputs, subjects : {<<>>}]]
  /\ check = [p \in Procs |-> NoCheck]

\* the run of process p builds its subjects
MakeSubjects(p) ==
  /\ pc[p] = "idle"
  /\ scan' = [scan EXCEPT ![p].subjects = Subjects(scan[p].files)]
  /\ pc' = [pc EXCEPT ![p] = "subjects"]
  /\ UNCHANGED <<now, index, store, nextKey, runs, repairs, appended, tamper, chain,
                 att, signer, signed, filePath, vres, sigres, check>>

NextSubjects == \E p \in Procs : MakeSubjects(p)

SpecSubjects == InitSubjects /\ [][NextSubjects]_vars

(***************************************************************************)
(* The verify command over an index whose length field was edited           *)
(***************************************************************************)
\* the index's length field gets another value: 0, or one past the entries
TamperLength ==
  /\ AllIdle
  /\ index.kind = "chain"
  /\ \A t \in tamper : t.op # "length"
  /\ \E n \in {0, Len(index.chain.Attestations) + 1} \ {index.chain.Length} :
       /\ index' = [index EXCEPT !.chain.Length = n]
       /\ tamper' = tamper \cup {Edit("length", n, NoFile)}
  /\ UNCHANGED <<now, store, nextKey, runs, repairs, appended, pc, locals>>

\* the summary verifyEvidence prints after VerifyChain returned nil slices
\* Genesis[:16] and Head[:16] and indexes Attestations[i] for i < Length
ReportPanics(c) ==
  \/ c.Genesis = NoHash
  \/ c.Head = NoHash
  \/ c.Length > Len(c.Attestations)

\* verifyEvidence from the VerifyChain call to its end
VerifyRunReport(p) ==
  /\ pc[p] = "vloaded"
  /\ chain[p].Length # 0
  /\ vres' = [vres EXCEPT ![p] = VerifyChain(chain[p], Files)]
  /\ pc' = [pc EXCEPT ![p] =
              IF VerifyChain(chain[p], Files) # VerifyOk THEN "failed"
              ELSE IF ReportPanics(chain[p]) THEN "panicked"
              ELSE "verified"]
  /\ UNCHANGED <<now, index, store, nextKey, runs, repairs, appended, tamper, chain, att,
                 signer, signed, filePath, sigres, scan, check>>

\* the runtime ends a panicked process with status 2
ExitPanicked(p) ==
  /\ pc[p] = "panicked"
  /\ pc' = [pc EXCEPT ![p] = "idle"]
  /\ chain' = [chain EXCEPT ![p] = ZeroChain]
  /\ vres' = [vres EXCEPT ![p] = NotVerified]
  /\ UNCHANGED <<now, index, store, nextKey, runs, repairs, appended, tamper, att,
                 signer, signed, filePath, sigres, scan, check>>

\* the exit status of a command that has reached its end
ExitStatus(p) ==
  CASE pc[p] \in {"added", "verified", "empty"} -> 0
    [] pc[p] = "failed" -> 1
    [] pc[p] = "panicked" -> 2
    [] OTHER -> -1

NextExit ==
  \/ \E p \in SeqProcs :
       \/ AttestLoad(p)
       \/ AttestBuild(p)
       \/ AttestNewSigner(p)
       \/ AttestSign(p)
       \/ AttestSave(p)
       \/ AttestAdd(p)
       \/ VerifyLoad(p)
       \/ VerifyEmpty(p)
       \/ VerifyRunReport(p)
       \/ ExitPanicked(p)
       \/ Exit(p)
  \/ TamperLength
  \/ TamperParentHash
  \/ DeleteArtifact

SpecExit == Init /\ [][NextExit]_vars

(***************************************************************************)
(* VerifySignedAttestation over envelopes of any shape                      *)
(***************************************************************************)
\* a key id of fewer than 8 characters
ShortKeyID(k) == [key |-> k, len |-> 4]

\* what key pair 1 signed, and the same envelope with its signatures
\* removed or re-labelled, its signingMetadata key id shortened or emptied,
\* its signingMetadata algorithm replaced
EnvelopeInputs ==
  LET s == SignAttestation(NewSigner(1), NewAttestation(<<"pass">>, NoHash, 0), 0)
      sig == s.Envelope.Signatures[1]
  IN {[s EXCEPT !.Envelope.Signatures = sigs,
                !.Metadata.KeyID = kid,
                !.Metadata.Algorithm = alg] :
        sigs \in {<<>>, <<sig>>, <<[sig EXCEPT !.KeyID = ShortKeyID(1)]>>,
                  <<[sig EXCEPT !.KeyID = EmptyKeyID]>>},
        kid \in {KeyIDOf(1), ShortKeyID(1), EmptyKeyID},
        alg \in {"ECDSA-SHA256", "RSA-SHA256", ""}}

InitEnvelope ==
  /\ now = 0
  /\ index = AbsentIndex
  /\ store = [f \in {} |-> NoString]
  /\ nextKey = 2
  /\ runs = 0
  /\ repairs = 0
  /\ appended = 0
  /\ tamper = {}
  /\ pc = [p \in Procs |-> "idle"]
  /\ chain = [p \in Procs |-> ZeroChain]
  /\ att = [p \in Procs |-> ZeroAttestation]
  /\ signer = [p \in Procs |-> ZeroSigner]
  /\ signed \in [Procs -> EnvelopeInputs]
  /\ filePath = [p \in Procs |-> NoFile]
  /\ vres = [p \in Procs |-> NotVerified]
  /\ sigres = [p \in Procs |-> NoSigCheck]
  /\ scan = [p \in Procs |-> NoScan]
  /\ check = [p \in Procs |-> NoCheck]

\* process p calls VerifySignedAttestation on the envelope it holds
VerifyEnvelope(p) ==
  /\ pc[p] = "idle"
  /\ \E k \in 1..nextKey :
       sigres' = [sigres EXCEPT ![p] =
         [file |-> NoFile, publicKey |-> k,
          result |-> VerifySignedAttestation(signed[p], k)]]
  /\ pc' = [pc EXCEPT ![p] = "sigchecked"]
  /\ UNCHANGED <<now, index, store, nextKey, runs, repairs, appended, tamper, chain, att,
                 signer, signed, filePath, vres, scan, check>>

NextEnvelope == \E p \in Procs : VerifyEnvelope(p)

SpecEnvelope == InitEnvelope /\ [][NextEnvelope]_vars

(***************************************************************************)
(* The check command (runPolicyChecks)                                      *)
(***************************************************************************)
\* the relevant files a scan may find under the working directory
RelevantFiles == {"main.tf", "deploy.yml"}

\* the content of a scanned file, as far as the check command reads it
FileText == "text"

\* a CheckResult (message, remediation and metadata left out)
CheckResult(rule, status, file, line) ==
  [RuleName |-> rule, Status |-> status, File |-> file, Line |-> line]

\* what each rule's Check may return: the S3 and security-group rules one
\* pass or a fail per finding, the OIDC rule a pass, a warn or fails
S3RuleOutcomes ==
  {<<CheckResult("s3-no-public-buckets", "pass", "", 0)>>,
   <<CheckResult("s3-no-public-buckets", "fail", "main.tf", 1)>>}
SGRuleOutcomes ==
  {<<CheckResult("sg-no-open-ingress", "pass", "", 0)>>,
   <<CheckResult("sg-no-open-ingress", "fail", "main.tf", 1)>>,
   <<CheckResult("sg-no-open-ingress", "fail", "main.tf", 1),
     CheckResult("sg-no-open-ingress", "fail", "main.tf", 2)>>}
OIDCRuleOutcomes ==
  {<<CheckResult("deploy-require-oidc", "pass", "", 0)>>,
   <<CheckResult("deploy-require-oidc", "warn", "", 0)>>,
   <<CheckResult("deploy-require-oidc", "fail", "deploy.yml", 1)>>}

\* PolicyEngine.RunChecks: the rules' results appended in rule order
RunChecks(s3, sg, oidc) == s3 \o sg \o oidc

\* ScanRelevantFiles: the walk fails, or yields the relevant files' content
CheckScan(p) ==
  /\ pc[p] = "idle"
  /\ \E walkOk \in BOOLEAN : \E fs \in SUBSET RelevantFiles :
       IF ~walkOk
       THEN /\ pc' = [pc EXCEPT ![p] = "failed"]
            /\ UNCHANGED check
       ELSE /\ check' = [check EXCEPT ![p].files = [f \in fs |-> FileText]]
            /\ pc' = [pc EXCEPT ![p] = IF fs = {} THEN "nofiles" ELSE "scanned"]
  /\ UNCHANGED <<now, index, store, nextKey, runs, repairs, appended, tamper, chain,
                 att, signer, signed, filePath, vres, sigres, scan>>

\* mutant: a warning ends the command like a failure
ExitsWithErrorOnWarn(results) ==
  \E i \in 1..Len(results) : results[i].Status \in {"fail", "warn"}

\* the loop over the results: os.Exit(1) at the first result that failed
ExitsWithError(results) ==
  \E i \in 1..Len(results) : results[i].Status = "fail"

\* RunChecks, FormatResults, and the exit status
CheckRun(p) ==
  /\ pc[p] = "scanned"
  /\ \E s3 \in S3RuleOutcomes : \E sg \in SGRuleOutcomes : \E oidc \in OIDCRuleOutcomes :
       LET results == RunChecks(s3, sg, oidc)
       IN /\ check' = [check EXCEPT ![p].results = results]
          /\ pc' = [pc EXCEPT ![p] =
                      IF ExitsWithError(results) THEN "failed" ELSE "checked"]
  /\ UNCHANGED <<now, index, store, nextKey, runs, repairs, appended, tamper, chain,
                 att, signer, signed, filePath, vres, sigres, scan>>

\* the exit status of a check command that has reached its end
CheckExitStatus(p) ==
  CASE pc[p] \in {"nofiles", "checked"} -> 0
    [] pc[p] = "failed" -> 1
    [] OTHER -> -1

\* the process of the check command ends
CheckExit(p) ==
  /\ pc[p] \in {"nofiles", "checked", "failed"}
  /\ pc' = [pc EXCEPT ![p] = "idle"]
  /\ check' = [check EXCEPT ![p] = NoCheck]
  /\ UNCHANGED <<now, index, store, nextKey, runs, repairs, appended, tamper, chain,
                 att, signer, signed, filePath, vres, sigres, scan>>

NextCheck ==
  \E p \in Procs :
    \/ CheckScan(p)
    \/ CheckRun(p)
    \/ CheckExit(p)

SpecCheck == Init /\ [][NextCheck]_vars

(***************************************************************************)
(* ScanAndRepairChain over an evidence directory of any content             *)
(***************************************************************************)
\* the key id prefix in the name of a file no signer of this model wrote
ForeignKey == [key |-> 0, len |-> KeyIDPrefixLen]

\* what an attestation-*.json file may hold: an attestation of the raw
\* shape (Attestation.ToJSON), a signed artifact, or a cut-short text
ArtifactContents ==
  LET a(t) == NewAttestation(<<"pass">>, NoHash, t)
  IN {ToJSON(a(t)) : t \in 0..MaxClock}
       \cup {MarshalSigned(SignAttestation(NewSigner(1), a(t), t)) : t \in 0..MaxClock}
       \cup {TruncatedText}

\* the evidence directory as ScanAndRepairChain finds it: before the first
\* scan, a file of any such content is there under any free name
PlaceArtifact ==
  /\ AllIdle
  /\ repairs = 0
  /\ \E stamp \in 0..MaxClock : \E content \in ArtifactContents :
       LET name == [stamp |-> stamp, key |-> ForeignKey]
       IN /\ name \notin Files
          /\ store' = WriteFile(store, name, content)
  /\ UNCHANGED <<now, index, nextKey, runs, repairs, appended, tamper, pc, locals>>

NextRepairAny ==
  \/ PlaceArtifact
  \/ \E p \in SeqProcs :
       \/ ScanAndRepairChain(p)
       \/ RepairDone(p)
       \/ Exit(p)

SpecRepairAny == Init /\ [][NextRepairAny]_vars

(***************************************************************************)
(* SecurityGroupOpenRule.Check over the lines of one Terraform file         *)
(***************************************************************************)
\* a line of a Terraform file: what the rule's substring tests see in it
\* (ingressOpen: "ingress {", egressOpen: "egress {", brace: "}",
\* openCIDR: 0.0.0.0/0, cidrBlocks: "cidr_blocks") and what it does to the
\* nesting of blocks (push: the block it opens and leaves open, pop: it
\* closes the innermost open block)
TfLine(text, ingressOpen, egressOpen, brace, openCIDR, cidrBlocks, push, pop) ==
  [text |-> text, ingressOpen |-> ingressOpen, egressOpen |-> egressOpen,
   brace |-> brace, openCIDR |-> openCIDR, cidrBlocks |-> cidrBlocks,
   push |-> push, pop |-> pop]

TfLines ==
  {TfLine("resource \"aws_security_group\" \"sg\" {",
          FALSE, FALSE, FALSE, FALSE, FALSE, "resource", FALSE),
   TfLine("ingress {", TRUE, FALSE, FALSE, FALSE, FALSE, "ingress", FALSE),
   TfLine("egress {", FALSE, TRUE, FALSE, FALSE, FALSE, "egress", FALSE),
   TfLine("ingress { description = \"ssh\" }",
          TRUE, FALSE, TRUE, FALSE, FALSE, "none", FALSE),
   TfLine("description = \"${var.name}\"",
          FALSE, FALSE, TRUE, FALSE, FALSE, "none", FALSE),
   TfLine("cidr_blocks = [\"0.0.0.0/0\"]",
          FALSE, FALSE, FALSE, TRUE, TRUE, "none", FALSE),
   TfLine("}", FALSE, FALSE, TRUE, FALSE, FALSE, "none", TRUE)}

\* the blocks open after the lines 1..n, innermost last
RECURSIVE OpenBlocks(_, _)
OpenBlocks(lines, n) ==
  IF n = 0 THEN <<>>
  ELSE LET before == OpenBlocks(lines, n - 1)
           l == lines[n]
       IN IF l.pop THEN SubSeq(before, 1, Len(before) - 1)
          ELSE IF l.push # "none" THEN Append(before, l.push)
          ELSE before

\* every closing brace closes a block and every block is closed
WellNested(lines) ==
  /\ \A n \in 1..Len(lines) : lines[n].pop => OpenBlocks(lines, n - 1) # <<>>
  /\ OpenBlocks(lines, Len(lines)) = <<>>

TfFiles == {lines \in UNION {[1..n -> TfLines] : n \in 0..MaxLines} : WellNested(lines)}

\* the loop over the lines of one file from line i on, inIngressBlock as
\* the lines before i left it: the results appended
RECURSIVE SGScanLines(_, _, _, _)
SGScanLines(filename, lines, i, inIngressBlock) ==
  IF i > Len(lines) THEN <<>>
  ELSE LET l == lines[i]
           inBlock == IF l.ingressOpen THEN TRUE
                      ELSE IF l.egressOpen THEN FALSE
                      ELSE IF l.brace /\ inIngressBlock THEN FALSE
                      ELSE inIngressBlock
           found == IF l.openCIDR /\ inBlock /\ l.cidrBlocks
                    THEN <<CheckResult("sg-no-open-ingress", "fail", filename, i)>>
                    ELSE <<>>
       IN found \o SGScanLines(filename, lines, i + 1, inBlock)

\* SecurityGroupOpenRule.Check for a file map of one Terraform file
SGCheck(files) ==
  LET filename == CHOOSE f \in DOMAIN files : TRUE
      results == IF DOMAIN files = {} THEN <<>>
                 ELSE SGScanLines(filename, files[filename], 1, FALSE)
  IN IF results = <<>>
     THEN <<CheckResult("sg-no-open-ingress", "pass", "", 0)>>
     ELSE results

InitSGRule ==
  /\ now = 0
  /\ index = AbsentIndex
  /\ store = [f \in {} |-> NoString]
  /\ nextKey = 1
  /\ runs = 0
  /\ repairs = 0
  /\ appended = 0
  /\ tamper = {}
  /\ pc = [p \in Procs |-> "idle"]
  /\ chain = [p \in Procs |-> ZeroChain]
  /\ att = [p \in Procs |-> ZeroAttestation]
  /\ signer = [p \in Procs |-> ZeroSigner]
  /\ signed = [p \in Procs |-> ZeroSigned]
  /\ filePath = [p \in Procs |-> NoFile]
  /\ vres = [p \in Procs |-> NotVerified]
  /\ sigres = [p \in Procs |-> NoSigCheck]
  /\ scan = [p \in Procs |-> NoScan]
  /\ \E lines \in TfFiles :
       check = [p \in Procs |->
                  IF p \in SeqProcs
                  THEN [files |-> [f \in {"main.tf"} |-> lines], results |-> <<>>]
                  ELSE NoCheck]

\* ruleResults := rule.Check(files)
SGRuleCheck(p) ==
  /\ pc[p] = "idle"
  /\ check' = [check EXCEPT ![p].results = SGCheck(check[p].files)]
  /\ pc' = [pc EXCEPT ![p] = "sgchecked"]
  /\ UNCHANGED <<now, index, store, nextKey, runs, repairs, appended, tamper, chain,
                 att, signer, signed, filePath, vres, sigres, scan>>

NextSGRule == \E p \in SeqProcs : SGRuleCheck(p)

SpecSGRule == InitSGRule /\ [][NextSGRule]_vars

(***************************************************************************)
(* Properties                                                               *)
(***************************************************************************)
Entries(p) == chain[p].Attestations

\* VerifyChain has returned to process p
VerifyRan(p) == vres[p] # NotVerified

\* entry 0 has no parent and every later entry names its predecessor's hash
HashLinked(c) ==
  LET es == c.Attestations
  IN Len(es) > 0 =>
       /\ es[1].ParentHash = NoHash
       /\ \A i \in 2..Len(es) : es[i].ParentHash = es[i-1].Hash

\* the artifacts whose content was rewritten after they were stored
AlteredFiles == {t.file : t \in {u \in tamper : u.op = "alter"}}

\* the attestation inside a stored signed artifact
EmbeddedAttestation(text) ==
  UnmarshalAttestation(B64Decode(UnmarshalSigned(text).value.Envelope.Payload)).value

\* publicKey validates one of the envelope's signatures over its payload
ValidFor(text, publicKey) ==
  LET e == UnmarshalSigned(text).value.Envelope
  IN \E i \in 1..Len(e.Signatures) :
       ECDSAValid(publicKey, PAE(e.PayloadType, B64Decode(e.Payload)),
                  B64Decode(e.Signatures[i].Sig))

\* C1 (as claimed): the verify command never reports the chain verified when
\* an artifact one of its entries references was rewritten after it was
\* appended.
C1_AlteredArtifactFailsVerify ==
  \A p \in Procs :
    pc[p] = "verified" =>
      \A i \in 1..Len(Entries(p)) : Entries(p)[i].FilePath \notin AlteredFiles

\* C2: starting from the empty chain, after N successful AddAttestation calls
\* the chain in memory and the persisted index have Length = N = number of
\* entries and pass VerifyChain, and the verify command never fails.
C2_AppendsVerify ==
  /\ index.kind = "chain" =>
       /\ index.chain.Length = appended
       /\ Len(index.chain.Attestations) = appended
       /\ VerifyChain(index.chain, Files) = VerifyOk
  /\ \A p \in Procs :
       pc[p] = "added" =>
         /\ chain[p].Length = appended
         /\ Len(Entries(p)) = appended
         /\ VerifyChain(chain[p], Files) = VerifyOk
  /\ \A p \in Procs : VerifyRan(p) => vres[p] = VerifyOk

C2_Witness ==
  \E p \in Procs :
    /\ pc[p] = "added"
    /\ appended = 2
    /\ chain[p].Length = 2
    /\ att[p].ParentHash # NoHash

\* C3 (as claimed): after a successful AddAttestation, whatever parent hash
\* hint the attestation was built with, Head is the hash of the last entry
\* and Genesis the hash of the first.
C3_HeadAndGenesis ==
  \A p \in Procs :
    pc[p] = "added" =>
      /\ chain[p].Head = Entries(p)[Len(Entries(p))].Hash
      /\ chain[p].Genesis = Entries(p)[1].Hash

\* C4: in every state reached by AddAttestation and ScanAndRepairChain the
\* chain in memory and the persisted index are hash-linked.
C4_HashLinked ==
  /\ HashLinked(index.chain)
  /\ \A p \in Procs : HashLinked(chain[p])

C4_Witness ==
  \E p \in Procs :
    /\ pc[p] = "added"
    /\ repairs > 0
    /\ Len(Entries(p)) >= 2
    /\ index.chain = chain[p]

\* C5: in an attest run the hash and parentHash inside the signed, stored
\* artifact are those of the chain entry that references it, and the hash
\* AddAttestation recomputes is the one that was signed; the same holds for
\* every entry of the persisted index.
C5_StoredMatchesEntry ==
  /\ \A p \in Procs :
       (/\ filePath[p] # NoFile
        /\ Len(Entries(p)) > 0
        /\ Entries(p)[Len(Entries(p))].FilePath = filePath[p]) =>
         LET e == Entries(p)[Len(Entries(p))]
             a == EmbeddedAttestation(store[filePath[p]])
         IN /\ a.Hash = e.Hash
            /\ a.ParentHash = e.ParentHash
            /\ a.Hash = att[p].Hash
  /\ \A i \in 1..Len(index.chain.Attestations) :
       LET e == index.chain.Attestations[i]
       IN /\ e.FilePath \in Files
          /\ EmbeddedAttestation(store[e.FilePath]).Hash = e.Hash
          /\ EmbeddedAttestation(store[e.FilePath]).ParentHash = e.ParentHash

C5_Witness ==
  \E p \in Procs :
    /\ pc[p] = "added"
    /\ Len(Entries(p)) = 2
    /\ Entries(p)[2].ParentHash # NoHash
    /\ EmbeddedAttestation(store[filePath[p]]).Hash = Entries(p)[2].Hash

\* C6: when the parentHash of one entry i of a chain of at least two entries
\* was replaced by another value (and nothing else was edited), VerifyChain
\* fails and the error names entry i: the genesis message for i = 0, the
\* broken-chain message with position i otherwise.
C6_ParentHashEditDetected ==
  \A p \in Procs :
    VerifyRan(p) =>
      \A i \in 1..Len(Entries(p)) :
        (Len(Entries(p)) >= 2 /\ tamper = {Edit("parentHash", i - 1, NoFile)}) =>
          vres[p] = IF i = 1
                    THEN [kind |-> "genesis parent not empty", pos |-> -1]
                    ELSE [kind |-> "parent hash mismatch", pos |-> i - 1]

C6_Witness ==
  \E p \in Procs :
    /\ pc[p] = "failed"
    /\ Len(Entries(p)) >= 2
    /\ tamper = {Edit("parentHash", 1, NoFile)}
    /\ vres[p] = [kind |-> "parent hash mismatch", pos |-> 1]

\* C7 (as claimed): on a non-empty chain whose links are intact and whose
\* artifacts exist, VerifyChain fails when Head is not the hash of the last
\* entry, and fails when Genesis is not the hash of the first entry.
C7_HeadGenesisMismatchFails ==
  \A p \in Procs :
    (/\ VerifyRan(p)
     /\ Len(Entries(p)) > 0
     /\ HashLinked(chain[p])
     /\ \A i \in 1..Len(Entries(p)) : Entries(p)[i].FilePath \in Files
     /\ \/ chain[p].Head # Entries(p)[Len(Entries(p))].Hash
        \/ chain[p].Genesis # Entries(p)[1].Hash) =>
      vres[p] # VerifyOk

\* C8: when entry i is the first entry whose storeReference names no file
\* and the links before it are intact, VerifyChain fails with the missing
\* artifact error for entry i, whatever the parent links at i and beyond.
C8_MissingArtifactDetected ==
  \A p \in Procs :
    VerifyRan(p) =>
      \A i \in 1..Len(Entries(p)) :
        (/\ Entries(p)[i].FilePath \notin Files
         /\ \A j \in 1..(i-1) : Entries(p)[j].FilePath \in Files
         /\ Entries(p)[1].ParentHash = NoHash
         /\ \A j \in 2..(i-1) : Entries(p)[j].ParentHash = Entries(p)[j-1].Hash) =>
          vres[p] = [kind |-> "attestation file missing", pos |-> i - 1]

C8_Witness ==
  \E p \in Procs :
    /\ vres[p] = [kind |-> "attestation file missing", pos |-> 0]
    /\ Len(Entries(p)) >= 2
    /\ Entries(p)[2].ParentHash # Entries(p)[1].Hash

\* C9: VerifySignedAttestation accepts what SignAttestation produced when it
\* is given the signer's own public key: right after signing, and for every
\* stored artifact checked with a key that validates its signature.
C9_SignThenVerify ==
  /\ \A p \in Procs :
       pc[p] \in {"signed", "saved"} =>
         VerifySignedAttestation(signed[p], signer[p].publicKey) = "ok"
  /\ \A p \in Procs :
       (pc[p] = "sigchecked" /\ ValidFor(store[sigres[p].file], sigres[p].publicKey)) =>
         sigres[p].result = "ok"

C9_Witness ==
  \E p \in Procs :
    /\ pc[p] = "sigchecked"
    /\ ValidFor(store[sigres[p].file], sigres[p].publicKey)
    /\ sigres[p].result = "ok"

\* C10 (as claimed): VerifySignedAttestation returns an error whenever the
\* public key does not validate the envelope's signature over its payload
\* (another key, or a payload rewritten after signing).
C10_RejectsInvalid ==
  \A p \in Procs :
    (pc[p] = "sigchecked" /\ ~ValidFor(store[sigres[p].file], sigres[p].publicKey)) =>
      sigres[p].result # "ok"

\* the signature of a signed attestation validates under the signer's key
\* over the payload it carries
ReallySigned(sg, s) ==
  /\ sg.Envelope.Signatures # <<>>
  /\ sg.Metadata.KeyID = s.keyID
  /\ \A i \in 1..Len(sg.Envelope.Signatures) :
       ECDSAValid(s.publicKey,
                  PAE(sg.Envelope.PayloadType, B64Decode(sg.Envelope.Payload)),
                  B64Decode(sg.Envelope.Signatures[i].Sig))

\* process p has been through AddAttestation in this run
ReachedAdd(p) ==
  /\ filePath[p] # NoFile
  /\ Len(Entries(p)) > 0
  /\ Entries(p)[Len(Entries(p))].FilePath = filePath[p]

C11_State ==
  /\ \A p \in Procs :
       (pc[p] = "added" \/ ReachedAdd(p)) =>
         /\ signer[p] # ZeroSigner
         /\ ReallySigned(signed[p], signer[p])
         /\ filePath[p] \in Files
         /\ store[filePath[p]] = MarshalSigned(signed[p])
  /\ \A i \in 1..Len(index.chain.Attestations) :
       /\ index.chain.Attestations[i].FilePath \in Files
       /\ UnmarshalSigned(store[index.chain.Attestations[i].FilePath]).ok

C11_Step ==
  /\ index' # index =>
       \E p \in Procs :
         \/ pc[p] = "saved" /\ pc'[p] = "added"
         \/ pc[p] = "idle" /\ index.kind = "absent" /\ index'.chain.Length = 0
  /\ \A p \in Procs :
       (pc[p] \in {"built", "keyed", "signed"} /\ pc'[p] = "failed") =>
         /\ index' = index
         /\ chain'[p] = chain[p]
         /\ ~ReachedAdd(p)'

\* C11: in an attest run AddAttestation is reached only with a signer made,
\* the attestation really signed and the signed artifact stored under the
\* entry's file name; a run whose key generation, signing or saving fails
\* adds no entry and leaves the persisted index as it was.
C11_SignedBeforeAppend == []C11_State /\ [][C11_Step]_vars

C11_Witness ==
  \E p \in Procs :
    /\ pc[p] = "failed"
    /\ signed[p] # ZeroSigned
    /\ filePath[p] # NoFile
    /\ ~ReachedAdd(p)
    /\ index.kind = "chain"
    /\ index.chain.Length = 1
    /\ index.chain = chain[p]

\* the verify command checked and accepted the signature of every entry of
\* the chain it reports on (sigres holds the process's last
\* VerifySignedAttestation call)
SignaturesChecked(p) ==
  \A i \in 1..Len(Entries(p)) :
    /\ sigres[p].file = Entries(p)[i].FilePath
    /\ sigres[p].result = "ok"

\* the report says that only the linkage was verified
DeclaresLinkageOnly(report) ==
  \E line \in report : line \in {"linkage only", "signatures not checked"}

\* C12 (as claimed): the verify command reports the chain verified only
\* when every entry's signature was checked and passed, or when its report
\* declares the verification to be linkage-only.
C12_VerifiedMeansSigned ==
  \A p \in Procs :
    pc[p] = "verified" =>
      SignaturesChecked(p) \/ DeclaresLinkageOnly(VerifiedReport)

\* C13 (as claimed): at every point of a SaveChain execution, and after a
\* crash in its middle, whoever reads the index finds a complete index:
\* LoadOrCreateChain does not fail on a missing, empty or cut-short file.
C13_ReaderSeesCompleteIndex ==
  (runs > 0 /\ index.kind # "absent") =>
    /\ index.kind = "chain"
    /\ ~LoadOrCreateChain(index, now, TRUE).err

C18_Step ==
  \A p \in Procs :
    (pc[p] = "idle" /\ pc'[p] # "idle" /\ index.kind = "corrupt") =>
      /\ pc'[p] = "failed"
      /\ chain'[p] = ZeroChain
      /\ index' = index
      /\ store' = store

\* C18: a command that calls LoadOrCreateChain while the index file holds
\* bytes that do not parse gets an error and no chain, and the index file
\* and the artifacts stay as they were.
C18_CorruptIndexIsAnError == [][C18_Step]_vars

C18_Witness ==
  \E p \in Procs :
    /\ pc[p] = "failed"
    /\ index.kind = "corrupt"
    /\ chain[p] = ZeroChain
    /\ att[p] = ZeroAttestation
    /\ Files # {}

C14_Step ==
  \A p \in Procs :
    (pc[p] = "saved" /\ pc'[p] = "failed") =>
      /\ chain'[p].Length = chain[p].Length
      /\ chain'[p].Head = chain[p].Head
      /\ chain'[p].Genesis = chain[p].Genesis
      /\ chain'[p].Attestations = chain[p].Attestations
      /\ index' = index

\* C14 (as claimed): an AddAttestation that returns SaveChain's error leaves
\* the chain in memory (Length, Head, Genesis, entries) and the persisted
\* index as they were before the call.
C14_FailedAddChangesNothing == [][C14_Step]_vars

\* C15 (as claimed): once two attest runs on the same evidence directory
\* have both completed their AddAttestation, however their steps were
\* interleaved, the persisted index holds one entry for each run, no two
\* entries have the same parentHash, and the index passes VerifyChain.
C15_BothRunsKept ==
  (runs = 2 /\ appended = 2 /\ \A p \in Procs : pc[p] \in {"idle", "added"}) =>
    /\ index.kind = "chain"
    /\ Len(index.chain.Attestations) = 2
    /\ index.chain.Attestations[1].ParentHash # index.chain.Attestations[2].ParentHash
    /\ VerifyChain(index.chain, Files) = VerifyOk

\* the chain is what sequential attest runs with strictly increasing
\* timestamps built, and the store holds exactly their artifacts
BuiltBySequentialAppends(c) ==
  /\ Len(c.Attestations) >= 1
  /\ Len(c.Attestations) = appended
  /\ Cardinality(Files) = appended
  /\ \A i \in 1..Len(c.Attestations) : c.Attestations[i].FilePath \in Files
  /\ \A i, j \in 1..Len(c.Attestations) :
       i < j => c.Attestations[i].Timestamp < c.Attestations[j].Timestamp

\* linkage of two chains is the same
SameLinkage(c, d) ==
  /\ c.Length = d.Length
  /\ c.Head = d.Head
  /\ c.Genesis = d.Genesis
  /\ Len(c.Attestations) = Len(d.Attestations)
  /\ \A i \in 1..Len(c.Attestations) :
       i <= Len(d.Attestations) =>
         /\ c.Attestations[i].Hash = d.Attestations[i].Hash
         /\ c.Attestations[i].ParentHash = d.Attestations[i].ParentHash

C16_Step ==
  \A p \in Procs :
    (/\ repairs = 0
     /\ repairs' = 1
     /\ pc[p] = "idle"
     /\ pc'[p] \in {"repaired", "failed"}
     /\ index.kind = "chain"
     /\ BuiltBySequentialAppends(index.chain)) =>
      SameLinkage(chain'[p], index.chain)

\* C16 (as claimed): ScanAndRepairChain over the store that N sequential
\* attest runs with strictly increasing timestamps left returns a chain with
\* the length, head, genesis and per-entry hash and parentHash of the chain
\* those runs built.
C16_RepairRebuildsAppendedChain == [][C16_Step]_vars

\* the attestation-named files loadAttestationEntry can and cannot parse
Parseable == {f \in Files : loadAttestationEntry(store[f], f).ok}
Unparseable == Files \ Parseable

\* the files a chain's entries name
EntryFiles(c) == {c.Attestations[i].FilePath : i \in 1..Len(c.Attestations)}

\* C17 (as claimed): ScanAndRepairChain over a store with k >= 0 parseable
\* and m >= 1 unparseable attestation files does not abort, and returns a
\* chain whose entries are exactly the k parseable artifacts.
C17_UnparseableSkipped ==
  \A p \in Procs :
    (pc[p] \in {"repaired", "panicked"} /\ Unparseable # {}) =>
      /\ pc[p] = "repaired"
      /\ EntryFiles(chain[p]) = Parseable
      /\ Len(Entries(p)) = Cardinality(Parseable)

\* a chain as LoadOrCreateChain creates it
IsEmptyChain(c) ==
  /\ c.Length = 0
  /\ c.Attestations = <<>>
  /\ c.Head = NoHash
  /\ c.Genesis = NoHash
  /\ c.ChainID # NoString

C19_State ==
  /\ (index.kind = "chain" /\ appended = 0) => IsEmptyChain(index.chain)
  /\ \A p \in Procs :
       pc[p] \in {"loaded", "vloaded", "empty"} =>
         /\ index.kind = "chain"
         /\ chain[p] = index.chain
         /\ appended = 0 => IsEmptyChain(chain[p])

C19_Step ==
  index.kind = "chain" =>
    /\ index'.kind = "chain"
    /\ index'.chain.ChainID = index.chain.ChainID
    /\ appended' = appended => index' = index

\* C19: with no index file LoadOrCreateChain returns and persists a chain of
\* Length 0 with no entries and Head and Genesis unset; every later
\* LoadOrCreateChain returns the persisted chain, which keeps its chainId
\* and stays empty until an append succeeds.
C19_CreatesEmptyChainOnce == []C19_State /\ [][C19_Step]_vars

C19_Witness ==
  \E p \in Procs :
    /\ pc[p] = "vloaded"
    /\ runs >= 1
    /\ appended = 0
    /\ IsEmptyChain(chain[p])
    /\ chain[p].ChainID # generateChainID(now)

\* C20: for every list of check outcomes calculateSummary gives overall
\* status fail when some outcome is fail, otherwise warn when some outcome
\* is warn, otherwise pass (the empty list included).
C20_OverallStatus ==
  \A p \in Procs :
    pc[p] = "summarized" =>
      LET r == att[p].Results
      IN att[p].Summary.OverallStatus =
           IF \E i \in 1..Len(r) : r[i] = "fail" THEN "fail"
           ELSE IF \E i \in 1..Len(r) : r[i] = "warn" THEN "warn"
           ELSE "pass"

C20_Witness ==
  \E p \in Procs :
    /\ pc[p] = "summarized"
    /\ att[p].Results = <<"warn", "pass", "fail">>
    /\ att[p].Summary.OverallStatus = "fail"

\* two attestations agree in every field but the hash
SameButHash(a, b) == [a EXCEPT !.Hash = NoHash] = [b EXCEPT !.Hash = NoHash]

\* two attestations agree in every field but the hash and the parent hash,
\* and have different parent hashes
DifferOnlyInParent(a, b) ==
  /\ a.ParentHash # b.ParentHash
  /\ [a EXCEPT !.Hash = NoHash, !.ParentHash = NoHash]
       = [b EXCEPT !.Hash = NoHash, !.ParentHash = NoHash]

\* C21 (as claimed): of two attestations whose hash calculateHash has set
\* (once, or a second time over the already hashed record), those equal in
\* every other field have the same hash, and those that differ only in
\* parentHash have different hashes.
C21_HashIsFunctionOfOtherFields ==
  \A p, q \in Procs :
    (pc[p] \in {"hashed", "rehashed"} /\ pc[q] \in {"hashed", "rehashed"}) =>
      /\ SameButHash(att[p], att[q]) => att[p].Hash = att[q].Hash
      /\ DifferOnlyInParent(att[p], att[q]) => att[p].Hash # att[q].Hash

\* the attestation's hash is the digest of its serialization with the hash
\* cleared
HashOverSerializedRecord(a) ==
  /\ ~MarshalFails(a)
  /\ a.Hash = Sha256(MarshalAttestation([a EXCEPT !.Hash = NoHash]))

\* C22 (as claimed): NewAttestation returns no attestation when the record
\* does not serialize: every attestation it returns carries a hash computed
\* over the serialized record.
C22_NoHashWithoutSerialization ==
  \A p \in Procs :
    pc[p] \in {"built", "keyed"} => HashOverSerializedRecord(att[p])

\* C23 (as claimed): NewAttestation makes one subject per scanned file, in
\* order, and two runs that scan the same path with different contents get
\* different subject digests for that path.
C23_SubjectDigestOfContent ==
  \A p, q \in Procs :
    (pc[p] = "subjects" /\ pc[q] = "subjects") =>
      /\ Len(scan[p].subjects) = Len(scan[p].files)
      /\ \A i \in 1..Len(scan[p].files) :
           scan[p].subjects[i].Name = scan[p].files[i].path
      /\ \A i \in 1..Len(scan[p].files) : \A j \in 1..Len(scan[q].files) :
           (/\ scan[p].files[i].path = scan[q].files[j].path
            /\ scan[p].files[i].content # scan[q].files[j].content) =>
             scan[p].subjects[i].Digest # scan[q].subjects[j].Digest

\* chain integrity of an index over the stored files
ChainIntegrity(c, files) ==
  LET es == c.Attestations
  IN /\ HashLinked(c)
     /\ \A i \in 1..Len(es) : es[i].FilePath \in files
     /\ Len(es) > 0 => c.Head = es[Len(es)].Hash /\ c.Genesis = es[1].Hash

\* process p runs the verify command and has reached its end
VerifyEnded(p) ==
  /\ pc[p] \in {"verified", "empty", "failed", "panicked"}
  /\ att[p] = ZeroAttestation

\* C24 (as claimed): the verify command exits with status 0 only when the
\* index it loaded satisfies chain integrity, whatever the index's length
\* field holds.
C24_ExitZeroOnlyWhenIntact ==
  \A p \in Procs :
    (VerifyEnded(p) /\ ExitStatus(p) = 0) => ChainIntegrity(chain[p], Files)

\* an envelope with no signatures, a signingMetadata key id of fewer than 8
\* characters, or a signingMetadata algorithm other than the supported one
Malformed(s) ==
  \/ Len(s.Envelope.Signatures) = 0
  \/ s.Metadata.KeyID.len < KeyIDPrefixLen
  \/ s.Metadata.Algorithm # "ECDSA-SHA256"

\* C25 (as claimed): VerifySignedAttestation returns an error, and neither
\* succeeds nor aborts, for every malformed envelope.
C25_MalformedEnvelopeIsAnError ==
  \A p \in Procs :
    (pc[p] = "sigchecked" /\ Malformed(signed[p])) => sigres[p].result = "error"

\* C26 (as claimed): a stored artifact becomes an entry of the chain index
\* only by an AddAttestation for it that succeeds: no step of a later attest
\* run or of ScanAndRepairChain puts an orphaned artifact into the index.
C26_Step ==
  \A f \in EntryFiles(index'.chain) \ EntryFiles(index.chain) :
    \E p \in Procs :
      /\ pc[p] = "saved"
      /\ pc'[p] = "added"
      /\ filePath[p] = f

C26_OrphanStaysOut == [][C26_Step]_vars

\* C27: AddAttestation is a strict append. Over every AddAttestation call,
\* failed or not, the entries the chain held before the call are, unchanged
\* and in the same order, the first entries it holds after the call, and
\* exactly one entry follows them; a call that succeeds has written exactly
\* that list to the index.
C27_Step ==
  \A p \in Procs :
    (pc[p] = "saved" /\ pc'[p] \in {"added", "failed"}) =>
      /\ Len(chain'[p].Attestations) = Len(chain[p].Attestations) + 1
      /\ SubSeq(chain'[p].Attestations, 1, Len(chain[p].Attestations))
           = chain[p].Attestations
      /\ pc'[p] = "added" => index'.chain.Attestations = chain'[p].Attestations

C27_StrictAppend == [][C27_Step]_vars

C27_Witness ==
  \E p \in Procs :
    /\ pc[p] = "added"
    /\ Len(Entries(p)) = 2
    /\ Entries(p)[1].FilePath # Entries(p)[2].FilePath
    /\ index.chain.Attestations = Entries(p)

\* C28 (as claimed): loadAttestationEntry applied to the file that
\* SaveSignedAttestation wrote returns an entry whose hash, timestamp, runId
\* and status are those of the attestation that was signed.
C28_SaveThenLoad ==
  \A p \in Procs :
    pc[p] = "saved" =>
      LET r == loadAttestationEntry(store[filePath[p]], filePath[p])
      IN /\ r.ok
         /\ r.entry.Hash = att[p].Hash
         /\ r.entry.Timestamp = att[p].Timestamp
         /\ r.entry.RunID = att[p].RunID
         /\ r.entry.Status = att[p].Summary.OverallStatus

\* the timestamp of the attestation embedded in the stored artifact f
EmbeddedTimestamp(f) == EmbeddedAttestation(store[f]).Timestamp

\* C29 (as claimed): the entries of the chain ScanAndRepairChain returns
\* are in non-decreasing order of the timestamp embedded in each artifact,
\* whatever the artifacts' names and the order the walk lists them in.
C29_RebuiltInTimestampOrder ==
  \A p \in Procs :
    pc[p] = "repaired" =>
      \A i, j \in 1..Len(Entries(p)) :
        i < j => EmbeddedTimestamp(Entries(p)[i].FilePath)
                   <= EmbeddedTimestamp(Entries(p)[j].FilePath)

\* C30 (as claimed): two distinct attest runs never receive the same runId,
\* also when both start within one clock second: the entries of the index,
\* one per run, and the attestation of a run under way have pairwise
\* different runIds.
C30_RunIDsDiffer ==
  LET es == index.chain.Attestations
  IN /\ \A i, j \in 1..Len(es) : i # j => es[i].RunID # es[j].RunID
     /\ \A p \in Procs : \A i \in 1..Len(es) :
          pc[p] \in {"built", "keyed", "signed", "saved"} =>
            att[p].RunID # es[i].RunID

\* the check command of process p has reached its end
CheckEnded(p) == pc[p] \in {"nofiles", "checked", "failed"}

\* at least one check outcome has status fail
SomeOutcomeFailed(p) ==
  \E i \in 1..Len(check[p].results) : check[p].results[i].Status = "fail"

\* the scan returned an error: no file map, no outcome
ScanFailed(p) == pc[p] = "failed" /\ check[p] = NoCheck

\* C31 (as claimed): the check command exits non-zero if and only if at
\* least one check outcome has status fail.
C31_NonZeroIffSomeFail ==
  \A p \in Procs :
    CheckEnded(p) => (CheckExitStatus(p) # 0 <=> SomeOutcomeFailed(p))

\* C31 (amended): the check command exits non-zero if and only if the scan
\* of the working directory failed or at least one check outcome has status
\* fail; it exits 0 when every outcome is pass or warn and when the scan
\* finds no relevant file.
C31_NonZeroIffScanErrorOrFail ==
  \A p \in Procs :
    CheckEnded(p) =>
      /\ CheckExitStatus(p) # 0 <=> (ScanFailed(p) \/ SomeOutcomeFailed(p))
      /\ pc[p] = "nofiles" => DOMAIN check[p].files = {} /\ CheckExitStatus(p) = 0

C31_Witness ==
  \E p, q \in Procs :
    /\ CheckExitStatus(p) = 1
    /\ Len(check[p].results) = Len(check[q].results)
    /\ \E i \in 1..Len(check[p].results) : check[p].results[i].Status = "fail"
    /\ CheckExitStatus(q) = 0
    /\ \E i \in 1..Len(check[q].results) : check[q].results[i].Status = "warn"

\* C32: whenever ScanAndRepairChain returns a chain without error, whatever
\* the store holds (signed artifacts, raw attestations, cut-short files),
\* that chain passes VerifyChain, its Length is its number of entries, its
\* Head the hash of its last entry and its Genesis the hash of its first.
C32_RebuiltChainVerifies ==
  \A p \in Procs :
    pc[p] = "repaired" =>
      /\ VerifyChain(chain[p], Files) = VerifyOk
      /\ chain[p].Length = Len(Entries(p))
      /\ Len(Entries(p)) > 0 =>
           /\ chain[p].Head = Entries(p)[Len(Entries(p))].Hash
           /\ chain[p].Genesis = Entries(p)[1].Hash

C32_Witness ==
  \E p \in Procs :
    /\ pc[p] = "repaired"
    /\ Len(Entries(p)) >= 2
    /\ Entries(p)[1].Hash # NoHash
    /\ Entries(p)[2].ParentHash = Entries(p)[1].Hash
    /\ Entries(p)[2].Hash # Entries(p)[1].Hash

\* C33: after every successful attest run the storeReference of the entry
\* the run added names the file SaveSignedAttestation wrote for that run,
\* which holds the run's signed attestation, and no two entries of the
\* chain share a storeReference (key pairs that NewSigner draws have
\* different key id prefixes, as digests of different inputs are different).
C33_EntryNamesOwnArtifact ==
  LET es == index.chain.Attestations
  IN \A p \in Procs :
       pc[p] = "added" =>
         /\ es # <<>>
         /\ es[Len(es)].FilePath = filePath[p]
         /\ filePath[p] = ArtifactName(signed[p])
         /\ filePath[p] \in Files
         /\ store[filePath[p]] = MarshalSigned(signed[p])
         /\ \A i, j \in 1..Len(es) : i # j => es[i].FilePath # es[j].FilePath

C33_Witness ==
  LET es == index.chain.Attestations
  IN \E p \in Procs :
       /\ pc[p] = "added"
       /\ Len(es) = 2
       /\ es[1].FilePath.stamp = es[2].FilePath.stamp
       /\ es[1].FilePath # es[2].FilePath

\* process p takes a step of the verify command: LoadOrCreateChain, the
\* empty-chain return, or VerifyChain
VerifyStep(p) ==
  \/ pc[p] = "idle" /\ pc'[p] \in {"vloaded", "failed"} /\ runs' = runs /\ repairs' = repairs
  \/ pc[p] = "vloaded"

\* C34 (as claimed): verification is read-only. VerifyChain leaves the
\* chain value as it was, and no step of the verify command changes the
\* index file or the artifacts, also when the index file is absent.
C34_Step ==
  \A p \in Procs :
    VerifyStep(p) =>
      /\ index' = index
      /\ store' = store
      /\ pc[p] = "vloaded" => chain'[p] = chain[p]

C34_VerifyIsReadOnly == [][C34_Step]_vars

\* C35 (as claimed): VerifyChain fails on every chain whose Length differs
\* from its number of entries, and on every chain without entries whose
\* Head or Genesis is set.
C35_LengthAndEmptyChainChecked ==
  \A p \in Procs :
    (/\ VerifyRan(p)
     /\ \/ chain[p].Length # Len(Entries(p))
        \/ /\ Len(Entries(p)) = 0
           /\ chain[p].Head # NoHash \/ chain[p].Genesis # NoHash) =>
      vres[p] # VerifyOk

\* C36 (as claimed): for every index that parses, the verify command ends
\* with a pass verdict (status 0) or a reported failure (status 1); it never
\* aborts, also when the length field exceeds the number of entries or a
\* displayed hash is shorter than the prefix that is printed.
C36_VerifyNeverAborts ==
  \A p \in Procs :
    (VerifyEnded(p) /\ chain[p] # ZeroChain) => ExitStatus(p) \in {0, 1}

\* C37: for every list of check outcomes calculateSummary returns
\* totalChecks equal to the number of outcomes, and passed + failed +
\* warnings equal to the number of outcomes whose status is pass, fail or
\* warn: the sum is totalChecks for every list of outcomes of these three
\* statuses, the only ones a check outcome has.
C37_TotalIsSumOfCounts ==
  \A p \in Procs :
    pc[p] = "summarized" =>
      LET r == att[p].Results
          sm == att[p].Summary
      IN /\ sm.TotalChecks = Len(r)
         /\ sm.Passed + sm.Failed + sm.Warnings
              = Cardinality({i \in 1..Len(r) : r[i] \in Statuses})
         /\ (\A i \in 1..Len(r) : r[i] \in Statuses) =>
              sm.TotalChecks = sm.Passed + sm.Failed + sm.Warnings

C37_Witness ==
  \E p \in Procs :
    /\ pc[p] = "summarized"
    /\ att[p].Results = <<"pass", "warn", "fail", "warn">>
    /\ att[p].Summary.TotalChecks = 4
    /\ att[p].Summary.Warnings = 2

\* C38 (as claimed): the chain length the attest command reports after a
\* successful run is the number of entries of the persisted chain.
C38_ReportedLengthIsEntryCount ==
  \A p \in Procs :
    pc[p] = "added" =>
      ReportedChainLength(chain[p]) = Len(index.chain.Attestations)

\* line i of the file lies inside an ingress block
InsideIngress(lines, i) ==
  \E k \in 1..Len(OpenBlocks(lines, i - 1)) : OpenBlocks(lines, i - 1)[k] = "ingress"

\* the rule reported line i
Reported(results, i) ==
  \E k \in 1..Len(results) : results[k].Status = "fail" /\ results[k].Line = i

\* C39 (as claimed): SecurityGroupOpenRule.Check reports a cidr_blocks line
\* containing 0.0.0.0/0 if and only if that line lies inside an ingress
\* block.
C39_ReportedIffInsideIngress ==
  \A p \in Procs :
    pc[p] = "sgchecked" =>
      LET lines == check[p].files["main.tf"]
      IN \A i \in 1..Len(lines) :
           (lines[i].openCIDR /\ lines[i].cidrBlocks) =>
             (Reported(check[p].results, i) <=> InsideIngress(lines, i))

====
